---- MODULE Spec2Model ----
(***************************************************************************)
(* Model of the flat arena tree sink of html5ever_nif (flat_dom.rs).       *)
(* The arena `nodes` is a Vec<Node>; a NodeHandle h indexes nodes[h + 1]   *)
(* here because TLA+ sequences are 1-based.                                *)
(***************************************************************************)
EXTENDS Integers, Sequences, FiniteSets, TLC

VARIABLES nodes, status, op, steps

vars == <<nodes, status, op, steps>>

\* ---- bounds of the model ------------------------------------------------
MaxNodes == 4
MaxChildren == 3
MaxAttrs == 2
MaxSteps == 3
\* arena size the attribute specification stops allocating at
MaxAttrNodes == 3

\* ---- input alphabets -----------------------------------------------------
None == -1
Texts == {"a", "b"}
ElemNames == {"div"}
QuirksModes == {"Quirks", "LimitedQuirks", "NoQuirks"}
Attrs == {<<"class", "a">>, <<"class", "b">>, <<"id", "x">>}
AttrLists == UNION {[1..n -> Attrs] : n \in 0..MaxAttrs}
\* the attribute lists the tree-shape specification draws from
TreeAttrLists == {<<>>, <<<<"class", "a">>>>}
\* ElementFlags { template, mathml_annotation_xml_integration_point }
Flags == {[template |-> FALSE, mathml |-> FALSE],
          [template |-> TRUE, mathml |-> FALSE],
          [template |-> FALSE, mathml |-> TRUE]}

\* ---- the node model ------------------------------------------------------
NodeData(kind, name, attrs, template_contents, mathml, contents) ==
  [kind |-> kind, name |-> name, attrs |-> attrs,
   template_contents |-> template_contents, mathml |-> mathml,
   contents |-> contents]

Document == NodeData("Document", "", <<>>, None, FALSE, "")
DocType == NodeData("DocType", "html", <<>>, None, FALSE, "")
Text(contents) == NodeData("Text", "", <<>>, None, FALSE, contents)
Comment(contents) == NodeData("Comment", "", <<>>, None, FALSE, contents)
Element(name, attrs, template_contents, mathml) ==
  NodeData("Element", name, attrs, template_contents, mathml, "")
ProcessingInstruction(contents) ==
  NodeData("ProcessingInstruction", "", <<>>, None, FALSE, contents)

NodeNew(id, data) ==
  [id |-> id, parent |-> None, children |-> <<>>, data |-> data]

Handles(ns) == 0..(Len(ns) - 1)

node(ns, handle) == ns[handle + 1]

\* variant: the id is taken after the push
make_node_off_by_one(ns, data) == Append(ns, NodeNew(Len(ns) + 1, data))

\* Vec::push of a freshly built node; the handle is the previous length.
make_node(ns, data) == Append(ns, NodeNew(Len(ns), data))

\* the handle make_node returns
make_node_id(ns) == Len(ns)

FlatSinkNew == <<NodeNew(0, Document)>>

\* ---- Vec helpers ---------------------------------------------------------
\* iter().enumerate().find(|&(_, n)| n == x): first 1-based index, 0 if none
position(s, x) ==
  IF \E i \in 1..Len(s) : s[i] = x
  THEN CHOOSE i \in 1..Len(s) : s[i] = x /\ \A j \in 1..(i - 1) : s[j] # x
  ELSE 0

\* Vec::insert(i, x), i 1-based
vec_insert(s, i, x) == SubSeq(s, 1, i - 1) \o <<x>> \o SubSeq(s, i, Len(s))

\* Vec::remove(i), i 1-based
vec_remove(s, i) == SubSeq(s, 1, i - 1) \o SubSeq(s, i + 1, Len(s))

set_parent(ns, handle, p) ==
  [ns EXCEPT ![handle + 1].parent = p]

set_children(ns, handle, c) ==
  [ns EXCEPT ![handle + 1].children = c]

\* ---- NodeOrText -----------------------------------------------------------
AppendNode(handle) == [text |-> FALSE, handle |-> handle, contents |-> ""]
AppendText(contents) == [text |-> TRUE, handle |-> None, contents |-> contents]

NodeOrTexts(ns) ==
  {AppendNode(h) : h \in Handles(ns)} \cup {AppendText(t) : t \in Texts}

\* variant: text is merged into a Text node the arena ends with
node_or_text_to_node_coalescing(ns, not) ==
  IF not.text
  THEN IF ns[Len(ns)].data.kind = "Text"
       THEN [nodes |-> ns, handle |-> Len(ns) - 1]
       ELSE [nodes |-> make_node(ns, Text(not.contents)),
             handle |-> make_node_id(ns)]
  ELSE [nodes |-> ns, handle |-> not.handle]

\* the arena and the handle after resolving a NodeOrText
node_or_text_to_node(ns, not) ==
  IF not.text
  THEN [nodes |-> make_node(ns, Text(not.contents)), handle |-> make_node_id(ns)]
  ELSE [nodes |-> ns, handle |-> not.handle]

\* ---- arena transformers of the TreeSink operations -----------------------
\* variant: the fragment Document is allocated whatever the template flag
create_element_nodes_always_fragment(ns, name, attrs, flags) ==
  make_node(make_node(ns, Document),
            Element(name, attrs,
                    IF flags.template THEN make_node_id(ns) ELSE None,
                    flags.mathml))

\* variant: the Element is allocated before its template fragment
create_element_nodes_fragment_last(ns, name, attrs, flags) ==
  IF flags.template
  THEN make_node(make_node(ns, Element(name, attrs, make_node_id(ns) + 1,
                                       flags.mathml)),
                 Document)
  ELSE make_node(ns, Element(name, attrs, None, flags.mathml))

create_element_nodes(ns, name, attrs, flags) ==
  IF flags.template
  THEN make_node(make_node(ns, Document),
                 Element(name, attrs, make_node_id(ns), flags.mathml))
  ELSE make_node(ns, Element(name, attrs, None, flags.mathml))

\* variant: the child is first taken out of the children of its old parent
append_nodes_detaching(ns, parent_id, handle) ==
  LET old == node(ns, handle).parent
      detached == IF old = None THEN ns
                  ELSE set_children(ns, old,
                         SelectSeq(node(ns, old).children,
                                   LAMBDA c : c # handle))
      pushed == set_children(detached, parent_id,
                             Append(node(detached, parent_id).children,
                                    handle))
  IN set_parent(pushed, handle, parent_id)

append_nodes(ns, parent_id, handle) ==
  LET pushed == set_children(ns, parent_id,
                             Append(node(ns, parent_id).children, handle))
  IN set_parent(pushed, handle, parent_id)

\* lines 166-169: both unwrap() calls succeed
append_before_sibling_ok(ns, sibling) ==
  /\ node(ns, sibling).parent # None
  /\ position(node(ns, node(ns, sibling).parent).children, sibling) # 0

\* variant: the new handle goes after the sibling
append_before_sibling_nodes_after(ns, sibling, new_node_handle) ==
  LET parent == node(ns, sibling).parent
      sibling_index == position(node(ns, parent).children, sibling)
  IN set_children(ns, parent,
                  vec_insert(node(ns, parent).children, sibling_index + 1,
                             new_node_handle))

append_before_sibling_nodes(ns, sibling, new_node_handle) ==
  LET parent == node(ns, sibling).parent
      sibling_index == position(node(ns, parent).children, sibling)
  IN set_children(ns, parent,
                  vec_insert(node(ns, parent).children, sibling_index,
                             new_node_handle))

\* variant: the doctype goes under the node allocated last
append_doctype_to_document_nodes_nested(ns) ==
  LET doctype == make_node_id(ns)
      last == Len(ns) - 1
      made == make_node(ns, DocType)
      pushed == set_children(made, last,
                             Append(node(made, last).children, doctype))
  IN set_parent(pushed, doctype, last)

append_doctype_to_document_nodes(ns) ==
  LET doctype == make_node_id(ns)
      made == make_node(ns, DocType)
      pushed == set_children(made, 0, Append(node(made, 0).children, doctype))
  IN set_parent(pushed, doctype, 0)

\* variant: an incoming attribute replaces the value of a present one
RECURSIVE add_attrs_if_missing_attrs_overwrite(_, _)
add_attrs_if_missing_attrs_overwrite(attrs, add_attrs) ==
  IF add_attrs = <<>> THEN attrs
  ELSE LET attr == Head(add_attrs)
       IN IF \E i \in 1..Len(attrs) : attrs[i][1] = attr[1]
          THEN add_attrs_if_missing_attrs_overwrite(
                 [i \in 1..Len(attrs) |->
                    IF attrs[i][1] = attr[1] THEN attr ELSE attrs[i]],
                 Tail(add_attrs))
          ELSE add_attrs_if_missing_attrs_overwrite(Append(attrs, attr),
                                                    Tail(add_attrs))

\* variant: every incoming attribute is pushed, the name check left out
add_attrs_if_missing_attrs_push_all(attrs, add_attrs) == attrs \o add_attrs

RECURSIVE add_attrs_if_missing_attrs(_, _)
add_attrs_if_missing_attrs(attrs, add_attrs) ==
  IF add_attrs = <<>> THEN attrs
  ELSE LET attr == Head(add_attrs)
       IN IF \E i \in 1..Len(attrs) : attrs[i][1] = attr[1]
          THEN add_attrs_if_missing_attrs(attrs, Tail(add_attrs))
          ELSE add_attrs_if_missing_attrs(Append(attrs, attr), Tail(add_attrs))

add_attrs_if_missing_nodes(ns, target_handle, add_attrs) ==
  [ns EXCEPT ![target_handle + 1].data.attrs =
     add_attrs_if_missing_attrs(@, add_attrs)]

\* lines 199-202: both unwrap() calls succeed
remove_from_parent_ok(ns, target) ==
  /\ node(ns, target).parent # None
  /\ position(node(ns, node(ns, target).parent).children, target) # 0

\* variant: the removal also clears the target's parent field
remove_from_parent_nodes_clearing(ns, target) ==
  LET parent == node(ns, target).parent
      sibling_index == position(node(ns, parent).children, target)
  IN set_parent(set_children(ns, parent,
                             vec_remove(node(ns, parent).children,
                                        sibling_index)),
                target, None)

remove_from_parent_nodes(ns, target) ==
  LET parent == node(ns, target).parent
      sibling_index == position(node(ns, parent).children, target)
  IN set_children(ns, parent,
                  vec_remove(node(ns, parent).children, sibling_index))

RECURSIVE reparent_loop(_, _, _)
reparent_loop(ns, old_children, new_parent) ==
  IF old_children = <<>> THEN ns
  ELSE reparent_loop(set_parent(ns, Head(old_children), new_parent),
                     Tail(old_children), new_parent)

reparent_children_nodes(ns, n, new_parent) ==
  LET old_children == node(ns, n).children
      reparented == reparent_loop(ns, old_children, new_parent)
  IN set_children(reparented, new_parent,
                  node(reparented, new_parent).children \o old_children)

has_parent_node_of(ns, handle) == node(ns, handle).parent # None

\* ---- export (NifEncoder) -------------------------------------------------
\* terms: an atom, an integer
Atom(a) == [atom |-> a]
Num(i) == [int |-> i]

\* NifEncoder for NodeHandle
handle_encode(h) == Num(h)

\* map_put on a map term, modelled as a function from keys to terms
map_put(m, k, v) == [x \in (DOMAIN m) \cup {k} |-> IF x = k THEN v ELSE m[x]]

map_new == [x \in {} |-> Atom("nil")]

\* the match over self.data reaches an arm that returns
node_encode_ok(n) == n.data.kind # "ProcessingInstruction"

\* NifEncoder for Node, for a node whose arm returns
node_encode(n) ==
  LET map == map_put(map_put(map_new, "id", handle_encode(n.id)), "parent",
                     IF n.parent = None THEN Atom("nil")
                     ELSE handle_encode(n.parent))
  IN CASE n.data.kind = "Document" ->
            map_put(map, "type", Atom("document"))
       [] n.data.kind = "Element" ->
            map_put(map_put(map_put(map_put(map,
              "type", Atom("element")),
              "children", [i \in 1..Len(n.children) |->
                             handle_encode(n.children[i])]),
              "name", n.data.name),
              "attrs", n.data.attrs)
       [] n.data.kind = "Text" ->
            map_put(map_put(map, "type", Atom("text")),
                    "contents", n.data.contents)
       [] n.data.kind = "DocType" ->
            map_put(map, "type", Atom("doctype"))
       [] n.data.kind = "Comment" ->
            map_put(map_put(map, "type", Atom("comment")),
                    "contents", n.data.contents)

\* the fold of flat_sink_to_term over sink.nodes, from index i on
RECURSIVE fold_nodes(_, _, _)
fold_nodes(ns, i, acc) ==
  IF i > Len(ns) THEN acc
  ELSE fold_nodes(ns, i + 1, map_put(acc, ns[i].id, node_encode(ns[i])))

flat_sink_to_term_ok(ns) == \A i \in 1..Len(ns) : node_encode_ok(ns[i])

flat_sink_to_term_of(ns) ==
  map_put(map_put(map_new, "nodes", fold_nodes(ns, 1, map_new)),
          "root", handle_encode(0))

\* ---- the recorded call ---------------------------------------------------
\* name: the method; a, b: its handle arguments (b: the handle a NodeOrText
\* resolved to); text: the NodeOrText was AppendText (create_element: the
\* template flag); attrs: the attribute vector passed; ret: the value returned;
\* repeat: the call before was the same method with the same a, text and attrs
Call(name, a, b, text, attrs, ret) ==
  [name |-> name, a |-> a, b |-> b, text |-> text, attrs |-> attrs,
   ret |-> ret,
   repeat |-> /\ op.name = name
              /\ op.a = a
              /\ op.text = text
              /\ op.attrs = attrs]

NoOp == [name |-> "new", a |-> None, b |-> None, text |-> FALSE,
         attrs |-> <<>>, ret |-> None, repeat |-> FALSE]

Init ==
  /\ nodes = FlatSinkNew
  /\ status = "Building"
  /\ op = NoOp
  /\ steps = 0

\* the sink accepts a call: it was neither consumed by finish nor unwound
Building ==
  /\ status = "Building"
  /\ steps < MaxSteps
  /\ steps' = steps + 1

Panic(name, a, b, ns) ==
  /\ status' = "Panicked"
  /\ nodes' = ns
  /\ op' = Call(name, a, b, FALSE, <<>>, None)

\* ---- actions: one per TreeSink method ------------------------------------
\* variant: a fresh sink is handed back instead of self
finish_fresh ==
  /\ Building
  /\ status' = "Finished"
  /\ op' = Call("finish", None, None, FALSE, <<>>, None)
  /\ nodes' = FlatSinkNew

finish ==
  /\ Building
  /\ status' = "Finished"
  /\ op' = Call("finish", None, None, FALSE, <<>>, None)
  /\ UNCHANGED nodes

\* variant: a parse error unwinds
parse_error_fatal ==
  /\ Building
  /\ \E msg \in Texts : Panic("parse_error", None, None, nodes)

\* the message is dropped
parse_error ==
  /\ Building
  /\ \E msg \in Texts : op' = Call("parse_error", None, None, FALSE, <<>>, None)
  /\ UNCHANGED <<nodes, status>>

\* the mode is dropped
set_quirks_mode ==
  /\ Building
  /\ \E mode \in QuirksModes :
       op' = Call("set_quirks_mode", None, None, FALSE, <<>>, None)
  /\ UNCHANGED <<nodes, status>>

get_document ==
  /\ Building
  /\ op' = Call("get_document", None, None, FALSE, <<>>, 0)
  /\ UNCHANGED <<nodes, status>>

\* variant: the fragment of a template element is handed out
get_template_contents_supported ==
  /\ Building
  /\ \E target \in Handles(nodes) :
       IF node(nodes, target).data.template_contents # None
       THEN /\ op' = Call("get_template_contents", target, None, FALSE, <<>>,
                          node(nodes, target).data.template_contents)
            /\ UNCHANGED <<nodes, status>>
       ELSE Panic("get_template_contents", target, None, nodes)

get_template_contents ==
  /\ Building
  /\ \E target \in Handles(nodes) :
       Panic("get_template_contents", target, None, nodes)

same_node ==
  /\ Building
  /\ \E x \in Handles(nodes), y \in Handles(nodes) :
       op' = Call("same_node", x, y, FALSE, <<>>, x = y)
  /\ UNCHANGED <<nodes, status>>

elem_name ==
  /\ Building
  /\ \E target \in Handles(nodes) :
       IF node(nodes, target).data.kind = "Element"
       THEN /\ op' = Call("elem_name", target, None, FALSE, <<>>,
                          node(nodes, target).data.name)
            /\ UNCHANGED <<nodes, status>>
       ELSE Panic("elem_name", target, None, nodes)

create_element(attr_lists, max_nodes) ==
  /\ Building
  /\ \E name \in ElemNames, attrs \in attr_lists, flags \in Flags :
       /\ Len(nodes) + (IF flags.template THEN 2 ELSE 1) <= max_nodes
       /\ nodes' = create_element_nodes(nodes, name, attrs, flags)
       /\ op' = Call("create_element", None, None, flags.template, attrs,
                     Len(nodes') - 1)
  /\ UNCHANGED status

create_comment ==
  /\ Building
  /\ Len(nodes) < MaxNodes
  /\ \E text \in Texts :
       /\ nodes' = make_node(nodes, Comment(text))
       /\ op' = Call("create_comment", None, None, FALSE, <<>>,
                     make_node_id(nodes))
  /\ UNCHANGED status

create_pi ==
  /\ Building
  /\ Len(nodes) < MaxNodes
  /\ \E data \in Texts :
       /\ nodes' = make_node(nodes, ProcessingInstruction(data))
       /\ op' = Call("create_pi", None, None, FALSE, <<>>,
                     make_node_id(nodes))
  /\ UNCHANGED status

append ==
  /\ Building
  /\ \E parent_id \in Handles(nodes), child \in NodeOrTexts(nodes) :
       LET r == node_or_text_to_node(nodes, child)
       IN /\ Len(r.nodes) <= MaxNodes
          /\ Len(node(nodes, parent_id).children) < MaxChildren
          /\ nodes' = append_nodes(r.nodes, parent_id, r.handle)
          /\ op' = Call("append", parent_id, r.handle, child.text, <<>>, None)
  /\ UNCHANGED status

append_before_sibling ==
  /\ Building
  /\ \E sibling \in Handles(nodes), new_node \in NodeOrTexts(nodes) :
       LET r == node_or_text_to_node(nodes, new_node)
       IN /\ Len(r.nodes) <= MaxNodes
          /\ IF append_before_sibling_ok(r.nodes, sibling)
             THEN /\ Len(node(nodes, node(nodes, sibling).parent).children)
                       < MaxChildren
                  /\ nodes' = append_before_sibling_nodes(r.nodes, sibling,
                                                          r.handle)
                  /\ op' = Call("append_before_sibling", sibling, r.handle,
                                new_node.text, <<>>, None)
                  /\ UNCHANGED status
             ELSE Panic("append_before_sibling", sibling, r.handle, r.nodes)

append_doctype_to_document ==
  /\ Building
  /\ Len(nodes) < MaxNodes
  /\ Len(node(nodes, 0).children) < MaxChildren
  /\ nodes' = append_doctype_to_document_nodes(nodes)
  /\ op' = Call("append_doctype_to_document", None, make_node_id(nodes),
                FALSE, <<>>, None)
  /\ UNCHANGED status

add_attrs_if_missing(attr_lists) ==
  /\ Building
  /\ \E target_handle \in Handles(nodes), add_attrs \in attr_lists :
       IF node(nodes, target_handle).data.kind = "Element"
       THEN /\ nodes' = add_attrs_if_missing_nodes(nodes, target_handle,
                                                   add_attrs)
            /\ op' = Call("add_attrs_if_missing", target_handle, None, FALSE,
                          add_attrs, None)
            /\ UNCHANGED status
       ELSE Panic("add_attrs_if_missing", target_handle, None, nodes)

remove_from_parent ==
  /\ Building
  /\ \E target \in Handles(nodes) :
       IF remove_from_parent_ok(nodes, target)
       THEN /\ nodes' = remove_from_parent_nodes(nodes, target)
            /\ op' = Call("remove_from_parent", target, None, FALSE, <<>>,
                          None)
            /\ UNCHANGED status
       ELSE Panic("remove_from_parent", target, None, nodes)

reparent_children ==
  /\ Building
  /\ \E n \in Handles(nodes), new_parent \in Handles(nodes) :
       /\ Len(node(nodes, new_parent).children) + Len(node(nodes, n).children)
            <= MaxChildren
       /\ nodes' = reparent_children_nodes(nodes, n, new_parent)
       /\ op' = Call("reparent_children", n, new_parent, FALSE, <<>>, None)
  /\ UNCHANGED status

mark_script_already_started ==
  /\ Building
  /\ \E elem \in Handles(nodes) :
       Panic("mark_script_already_started", elem, None, nodes)

has_parent_node ==
  /\ Building
  /\ \E handle \in Handles(nodes) :
       op' = Call("has_parent_node", handle, None, FALSE, <<>>,
                  has_parent_node_of(nodes, handle))
  /\ UNCHANGED <<nodes, status>>

\* the finished sink is encoded; it is only borrowed
flat_sink_to_term ==
  /\ status = "Finished"
  /\ steps < MaxSteps
  /\ steps' = steps + 1
  /\ IF flat_sink_to_term_ok(nodes)
     THEN /\ op' = Call("flat_sink_to_term", None, None, FALSE, <<>>,
                        flat_sink_to_term_of(nodes))
          /\ UNCHANGED <<nodes, status>>
     ELSE /\ status' = "Panicked"
          /\ op' = Call("flat_sink_to_term", None, None, FALSE, <<>>, None)
          /\ UNCHANGED nodes

Next ==
  \/ finish
  \/ parse_error
  \/ set_quirks_mode
  \/ get_document
  \/ get_template_contents
  \/ same_node
  \/ elem_name
  \/ create_element(TreeAttrLists, MaxNodes)
  \/ create_comment
  \/ create_pi
  \/ append
  \/ append_before_sibling
  \/ append_doctype_to_document
  \/ add_attrs_if_missing(TreeAttrLists)
  \/ remove_from_parent
  \/ reparent_children
  \/ mark_script_already_started
  \/ has_parent_node
  \/ flat_sink_to_term

Spec == Init /\ [][Next]_vars

\* the element-data operations on a small arena; add_attrs_if_missing draws
\* its vector from the full attribute alphabet
NextAttrs ==
  \/ create_element(TreeAttrLists, MaxAttrNodes)
  \/ add_attrs_if_missing(AttrLists)
  \/ elem_name
  \/ finish

SpecAttrs == Init /\ [][NextAttrs]_vars

TypeOK ==
  /\ status \in {"Building", "Finished", "Panicked"}
  /\ Len(nodes) \in 1..MaxNodes
  /\ steps \in 0..MaxSteps
  /\ \A h \in Handles(nodes) : node(nodes, h).id = h

\* ---- vocabulary of the properties ----------------------------------------
Count(s, x) == Cardinality({i \in 1..Len(s) : s[i] = x})

kind_of(ns, h) == node(ns, h).data.kind

children_of(ns, h) == node(ns, h).children

parent_of(ns, h) == node(ns, h).parent

\* t is s with the entry at index k taken out
Without(s, k, t) ==
  /\ Len(t) = Len(s) - 1
  /\ \A i \in 1..Len(t) : t[i] = IF i < k THEN s[i] ELSE s[i + 1]

\* ---- C1 -----------------------------------------------------------------
\* C1: bidirectional consistency: every node whose parent field is set to P
\* occurs exactly once in P's children, in every reachable state.
C1_BidirectionalConsistency ==
  \A n \in Handles(nodes) :
    parent_of(nodes, n) # None =>
      Count(children_of(nodes, parent_of(nodes, n)), n) = 1

\* ---- C2 -----------------------------------------------------------------
\* C2: root invariant: handle 0 is a Document, get_document returns 0, the
\* root's parent is never set and 0 is in no children list.
C2_RootInvariant ==
  /\ kind_of(nodes, 0) = "Document"
  /\ (op.name = "get_document" => op.ret = 0)
  /\ parent_of(nodes, 0) = None
  /\ \A n \in Handles(nodes) : Count(children_of(nodes, n), 0) = 0

\* ---- C3 -----------------------------------------------------------------
\* C3 (as claimed): the node at handle 0 is the only Document node.
C3_SingleDocument ==
  \A h \in Handles(nodes) : kind_of(nodes, h) = "Document" <=> h = 0

\* C3 (amended): handle 0 is a Document; every other Document node is the
\* synthetic template fragment allocated by create_element with the template
\* flag: the node right after it is an Element whose template_contents is its
\* handle, and every template_contents names such a Document.
C3_DocumentsAreRootOrTemplate ==
  /\ kind_of(nodes, 0) = "Document"
  /\ \A h \in Handles(nodes) \ {0} :
       kind_of(nodes, h) = "Document" =>
         /\ h + 1 \in Handles(nodes)
         /\ kind_of(nodes, h + 1) = "Element"
         /\ node(nodes, h + 1).data.template_contents = h
  /\ \A e \in Handles(nodes) :
       node(nodes, e).data.template_contents # None =>
         /\ kind_of(nodes, e) = "Element"
         /\ node(nodes, e).data.template_contents = e - 1
         /\ e - 1 # 0
         /\ kind_of(nodes, e - 1) = "Document"

C3_Witness ==
  /\ op.name = "create_element"
  /\ op.text
  /\ kind_of(nodes, op.ret) = "Element"
  /\ kind_of(nodes, op.ret - 1) = "Document"
  /\ op.ret - 1 # 0

\* ---- C4 -----------------------------------------------------------------
\* C4: order preservation: when S has a parent P and is among P's children,
\* append_before_sibling(S, X) completes, X sits immediately before S in P's
\* children, and taking that entry out gives back P's former children.
C4_OrderPreservation ==
  [][(/\ op'.name = "append_before_sibling"
      /\ parent_of(nodes, op'.a) # None
      /\ Count(children_of(nodes, parent_of(nodes, op'.a)), op'.a) > 0)
     => LET P == parent_of(nodes, op'.a)
            old == children_of(nodes, P)
            new == children_of(nodes', P)
        IN /\ status' = "Building"
           /\ \E k \in 1..(Len(new) - 1) :
                /\ new[k] = op'.b
                /\ new[k + 1] = op'.a
                /\ Without(new, k, old)]_vars

C4_Witness ==
  /\ op.name = "append_before_sibling"
  /\ status = "Building"
  /\ parent_of(nodes, op.a) # None
  /\ LET c == children_of(nodes, parent_of(nodes, op.a))
     IN /\ Len(c) = 3
        /\ c[2] = op.b
        /\ c[3] = op.a
        /\ c[1] \notin {op.a, op.b}

\* ---- C5 -----------------------------------------------------------------
\* C5: after append_before_sibling(S, X) the inserted node's parent field is
\* S's parent.
C5_InsertedParentSet ==
  (op.name = "append_before_sibling" /\ status = "Building")
    => parent_of(nodes, op.b) = parent_of(nodes, op.a)

\* ---- C6 -----------------------------------------------------------------
\* C6: reparent_children(source, dest) with source # dest empties source's
\* children, makes dest's children its former children followed by source's
\* former children, and sets each moved child's parent to dest.
C6_ReparentMoves ==
  [][(op'.name = "reparent_children" /\ op'.a # op'.b)
     => /\ children_of(nodes', op'.a) = <<>>
        /\ children_of(nodes', op'.b) =
             children_of(nodes, op'.b) \o children_of(nodes, op'.a)
        /\ \A i \in 1..Len(children_of(nodes, op'.a)) :
             parent_of(nodes', children_of(nodes, op'.a)[i]) = op'.b]_vars

\* ---- C7 -----------------------------------------------------------------
\* C7: remove_from_parent(T), T being among its parent's children, takes
\* exactly one entry holding T out of the parent's children, keeps the other
\* entries in order, and leaves T's parent field on the old parent, so that
\* has_parent_node(T) is still true.
C7_RemoveKeepsParentField ==
  [][(/\ op'.name = "remove_from_parent"
      /\ parent_of(nodes, op'.a) # None
      /\ Count(children_of(nodes, parent_of(nodes, op'.a)), op'.a) > 0)
     => LET P == parent_of(nodes, op'.a)
            old == children_of(nodes, P)
            new == children_of(nodes', P)
        IN /\ status' = "Building"
           /\ \E k \in 1..Len(old) : old[k] = op'.a /\ Without(old, k, new)
           /\ parent_of(nodes', op'.a) = P
           /\ has_parent_node_of(nodes', op'.a)]_vars

C7_Witness ==
  /\ op.name = "remove_from_parent"
  /\ status = "Building"
  /\ has_parent_node_of(nodes, op.a)
  /\ Count(children_of(nodes, parent_of(nodes, op.a)), op.a) = 0
  /\ Len(children_of(nodes, parent_of(nodes, op.a))) > 0

\* ---- C8 -----------------------------------------------------------------
names(attrs) == {attrs[i][1] : i \in 1..Len(attrs)}

unique_names(attrs) ==
  \A i, j \in 1..Len(attrs) : attrs[i][1] = attrs[j][1] => i = j

\* the indices of add_attrs that the merge is to keep: the name is not in
\* attrs and no earlier entry of add_attrs carries it
kept(attrs, add_attrs) ==
  {i \in 1..Len(add_attrs) :
     /\ add_attrs[i][1] \notin names(attrs)
     /\ \A j \in 1..(i - 1) : add_attrs[j][1] # add_attrs[i][1]}

\* C8: add_attrs_if_missing on an Element keeps the present attributes in
\* place and appends, in the order given, exactly the incoming attributes
\* whose name is new (first-defined wins); unique names stay unique.
C8_AttributeMerge ==
  [][(/\ op'.name = "add_attrs_if_missing"
      /\ kind_of(nodes, op'.a) = "Element")
     => LET old == node(nodes, op'.a).data.attrs
            new == node(nodes', op'.a).data.attrs
            K == kept(old, op'.attrs)
        IN /\ status' = "Building"
           /\ Len(new) = Len(old) + Cardinality(K)
           /\ \A i \in 1..Len(old) : new[i] = old[i]
           /\ \A i \in K :
                new[Len(old) + Cardinality({j \in K : j <= i})] = op'.attrs[i]
           /\ (unique_names(old) => unique_names(new))]_vars

\* the scenario: [(class,a)] merged with [(class,b),(id,x)]
C8_Witness ==
  /\ op.name = "add_attrs_if_missing"
  /\ status = "Building"
  /\ op.attrs = << <<"class", "b">>, <<"id", "x">> >>
  /\ node(nodes, op.a).data.attrs = << <<"class", "a">>, <<"id", "x">> >>

\* ---- C9 -----------------------------------------------------------------
\* C9: merge idempotence: a second add_attrs_if_missing(elem, A) right after
\* the first leaves elem's attribute list as the first left it, and no call
\* changes an attribute that was already present.
C9_MergeIdempotent ==
  [][(/\ op'.name = "add_attrs_if_missing"
      /\ kind_of(nodes, op'.a) = "Element")
     => /\ (/\ op.name = "add_attrs_if_missing"
            /\ op.a = op'.a
            /\ op.attrs = op'.attrs)
           => node(nodes', op'.a).data.attrs = node(nodes, op'.a).data.attrs
        /\ \A i \in 1..Len(node(nodes, op'.a).data.attrs) :
             /\ i <= Len(node(nodes', op'.a).data.attrs)
             /\ node(nodes', op'.a).data.attrs[i]
                  = node(nodes, op'.a).data.attrs[i]]_vars

\* the second of two equal calls has run, on a list the first one extended
C9_Witness ==
  /\ op.name = "add_attrs_if_missing"
  /\ op.repeat
  /\ status = "Building"
  /\ Len(op.attrs) = 2
  /\ node(nodes, op.a).data.attrs = op.attrs

\* ---- C10 ----------------------------------------------------------------
\* C10: no text coalescing: append(parent, text_a) followed by
\* append(parent, text_b) allocates one more node each, the two Text nodes
\* have distinct handles, the first is left as it was, and they are the last
\* two children of parent, in that order.
C10_NoTextCoalescing ==
  [][(/\ op.name = "append" /\ op.text
      /\ op'.name = "append" /\ op'.text
      /\ op'.a = op.a)
     => LET c == children_of(nodes', op'.a)
        IN /\ op'.b # op.b
           /\ Len(nodes') = Len(nodes) + 1
           /\ op'.b = Len(nodes)
           /\ kind_of(nodes', op.b) = "Text"
           /\ kind_of(nodes', op'.b) = "Text"
           /\ node(nodes', op.b).data = node(nodes, op.b).data
           /\ Len(c) >= 2
           /\ c[Len(c) - 1] = op.b
           /\ c[Len(c)] = op'.b
           /\ parent_of(nodes', op.b) = op'.a
           /\ parent_of(nodes', op'.b) = op'.a]_vars

\* three text appends in a row: the trailing child was a Text node already
C10_Witness ==
  /\ op.name = "append" /\ op.text /\ op.repeat
  /\ LET c == children_of(nodes, op.a)
     IN /\ Len(c) = 3
        /\ \A i \in 1..3 : kind_of(nodes, c[i]) = "Text"
        /\ c[1] # c[2] /\ c[2] # c[3] /\ c[1] # c[3]

\* ---- C11 ----------------------------------------------------------------
Allocating == {"create_element", "create_comment", "create_pi"}

\* C11: handle stability: no step shrinks the arena, every node already in
\* it keeps its index, id and kind, every node a step adds carries its index
\* as id, and create_* returns a handle that was not in the arena before: the
\* previous size (one past it for a template element, whose fragment got the
\* previous size).
C11_HandleStability ==
  [][/\ Len(nodes') >= Len(nodes)
     /\ \A h \in Handles(nodes) :
          /\ node(nodes', h).id = h
          /\ kind_of(nodes', h) = kind_of(nodes, h)
     /\ \A h \in Handles(nodes') : node(nodes', h).id = h
     /\ op'.name \in Allocating =>
          /\ op'.ret \notin Handles(nodes)
          /\ op'.ret \in Handles(nodes')
          /\ op'.ret = Len(nodes) + (IF op'.name = "create_element" /\ op'.text
                                     THEN 1 ELSE 0)]_vars

\* a handle handed out earlier is still indexable after a removal
C11_Witness ==
  /\ op.name = "remove_from_parent"
  /\ status = "Building"
  /\ op.a \in Handles(nodes)
  /\ node(nodes, op.a).id = op.a
  /\ Count(children_of(nodes, parent_of(nodes, op.a)), op.a) = 0
  /\ Len(nodes) >= 3

\* ---- C12 ----------------------------------------------------------------
\* C12: append(parent, child) makes parent's children its former children
\* followed by the child's handle, sets the child's parent field to parent,
\* and leaves every other children list and parent field as it was.
C12_AppendFrame ==
  [][op'.name = "append"
     => /\ status' = "Building"
        /\ op'.text => (op'.b = Len(nodes) /\ kind_of(nodes', op'.b) = "Text")
        /\ ~op'.text => Len(nodes') = Len(nodes)
        /\ children_of(nodes', op'.a)
             = Append(children_of(nodes, op'.a), op'.b)
        /\ parent_of(nodes', op'.b) = op'.a
        /\ \A n \in Handles(nodes) :
             /\ n # op'.a => children_of(nodes', n) = children_of(nodes, n)
             /\ n # op'.b => parent_of(nodes', n) = parent_of(nodes, n)
             /\ node(nodes', n).data = node(nodes, n).data
        /\ (op'.text /\ op'.b # op'.a) => children_of(nodes', op'.b) = <<>>]_vars

\* an existing node that is still listed under another parent was appended
C12_Witness ==
  /\ op.name = "append"
  /\ ~op.text
  /\ op.a # op.b
  /\ parent_of(nodes, op.b) = op.a
  /\ \E n \in Handles(nodes) \ {op.a} : Count(children_of(nodes, n), op.b) > 0

\* ---- C13 ----------------------------------------------------------------
\* C13: create_element with the template flag allocates a Document and then
\* the Element, whose template_contents is the Document's handle, and returns
\* the Element's handle; without the flag it allocates the Element alone,
\* with no template_contents. The Element has no parent and no children.
C13_CreateElement ==
  [][op'.name = "create_element"
     => LET e == op'.ret
        IN /\ \A h \in Handles(nodes) : node(nodes', h) = node(nodes, h)
           /\ e = Len(nodes') - 1
           /\ kind_of(nodes', e) = "Element"
           /\ node(nodes', e).data.attrs = op'.attrs
           /\ parent_of(nodes', e) = None
           /\ children_of(nodes', e) = <<>>
           /\ IF op'.text
              THEN /\ Len(nodes') = Len(nodes) + 2
                   /\ kind_of(nodes', Len(nodes)) = "Document"
                   /\ parent_of(nodes', Len(nodes)) = None
                   /\ children_of(nodes', Len(nodes)) = <<>>
                   /\ node(nodes', e).data.template_contents = Len(nodes)
              ELSE /\ Len(nodes') = Len(nodes) + 1
                   /\ node(nodes', e).data.template_contents = None]_vars

\* a template element was created in an arena that already held other nodes
C13_Witness ==
  /\ op.name = "create_element"
  /\ op.text
  /\ Len(nodes) = 4
  /\ op.ret = 3
  /\ node(nodes, 3).data.template_contents = 2

\* ---- C14 ----------------------------------------------------------------
\* C14: append_doctype_to_document allocates one DocType node, makes it the
\* last child of handle 0 with parent 0, and changes no other node.
C14_DoctypeUnderRoot ==
  [][op'.name = "append_doctype_to_document"
     => LET d == Len(nodes)
        IN /\ Len(nodes') = Len(nodes) + 1
           /\ kind_of(nodes', d) = "DocType"
           /\ children_of(nodes', 0) = Append(children_of(nodes, 0), d)
           /\ parent_of(nodes', d) = 0
           /\ children_of(nodes', d) = <<>>
           /\ \A n \in Handles(nodes) \ {0} : node(nodes', n) = node(nodes, n)
           /\ parent_of(nodes', 0) = parent_of(nodes, 0)]_vars

\* the doctype arrived while another node was the one allocated last
C14_Witness ==
  /\ op.name = "append_doctype_to_document"
  /\ Len(nodes) >= 3
  /\ kind_of(nodes, Len(nodes) - 1) = "DocType"
  /\ children_of(nodes, 0)[Len(children_of(nodes, 0))] = Len(nodes) - 1
  /\ parent_of(nodes, Len(nodes) - 1) = 0

\* ---- C15 ----------------------------------------------------------------
\* C15: contract violations are fatal: elem_name and add_attrs_if_missing on
\* a node that is no Element unwind without returning a value or touching
\* the arena; get_template_contents and mark_script_already_started unwind
\* on every handle, a template Element's included.
C15_ContractViolationsFatal ==
  [][/\ (/\ op'.name \in {"elem_name", "add_attrs_if_missing"}
         /\ kind_of(nodes, op'.a) # "Element")
        => /\ status' = "Panicked"
           /\ op'.ret = None
           /\ nodes' = nodes
     /\ op'.name \in {"get_template_contents", "mark_script_already_started"}
        => /\ status' = "Panicked"
           /\ op'.ret = None
           /\ nodes' = nodes]_vars

\* get_template_contents has unwound on an Element created with the flag
C15_Witness ==
  /\ op.name = "get_template_contents"
  /\ status = "Panicked"
  /\ kind_of(nodes, op.a) = "Element"
  /\ node(nodes, op.a).data.template_contents # None

\* ---- C16 ----------------------------------------------------------------
\* C16: set_quirks_mode and parse_error are no-ops: the arena is left as it
\* was and the sink goes on building.
C16_DiagnosticsNoOp ==
  [][op'.name \in {"set_quirks_mode", "parse_error"}
     => /\ nodes' = nodes
        /\ status = "Building"
        /\ status' = "Building"]_vars

\* a diagnostic was dropped by a sink that already holds attached nodes
C16_Witness ==
  /\ op.name \in {"set_quirks_mode", "parse_error"}
  /\ status = "Building"
  /\ Len(nodes) >= 3
  /\ children_of(nodes, 0) # <<>>

\* ---- C17 ----------------------------------------------------------------
ExportTypes == {Atom("document"), Atom("element"), Atom("text"),
                Atom("doctype"), Atom("comment")}

\* C17: the export of any finished arena returns a record whose root is 0
\* and whose nodes mapping has one entry per handle of the arena, each with
\* the node's id, its parent (or nil) and one of the five types.
C17_ExportTotal ==
  op.name = "flat_sink_to_term"
    => /\ status # "Panicked"
       /\ op.ret["root"] = Num(0)
       /\ DOMAIN op.ret["nodes"] = Handles(nodes)
       /\ \A h \in Handles(nodes) :
            LET e == op.ret["nodes"][h]
            IN /\ e["id"] = Num(h)
               /\ e["parent"] = IF parent_of(nodes, h) = None THEN Atom("nil")
                                ELSE Num(parent_of(nodes, h))
               /\ e["type"] \in ExportTypes

\* ---- C18 ----------------------------------------------------------------
\* C18: finish takes a building sink to Finished and hands back the arena
\* exactly as it was; once finished, no TreeSink method runs on it again (the
\* arena is only read, by the export).
C18_FinishTerminal ==
  [][/\ op'.name = "finish"
        => /\ status = "Building"
           /\ status' = "Finished"
           /\ nodes' = nodes
     /\ status = "Finished"
        => /\ nodes' = nodes
           /\ op'.name = "flat_sink_to_term"
           /\ status' # "Building"]_vars

\* a sink holding a populated tree was finished
C18_Witness ==
  /\ op.name = "finish"
  /\ status = "Finished"
  /\ Len(nodes) >= 3
  /\ children_of(nodes, 0) # <<>>

\* ---- C19 ----------------------------------------------------------------
\* C19: whenever has_parent_node(T) is true, remove_from_parent(T) and
\* append_before_sibling(T, X) complete without unwinding.
C19_ParentImpliesListed ==
  [][(/\ op'.name \in {"remove_from_parent", "append_before_sibling"}
      /\ has_parent_node_of(nodes, op'.a))
     => status' # "Panicked"]_vars

\* ---- C20 ----------------------------------------------------------------
\* the number of entries holding h over all children lists
Occurrences(ns, h) ==
  LET RECURSIVE sum(_)
      sum(i) == IF i = 0 THEN 0 ELSE Count(ns[i].children, h) + sum(i - 1)
  IN sum(Len(ns))

\* C20: tree shape: every handle occurs at most once over the children lists
\* of all nodes taken together.
C20_TreeShape ==
  \A h \in Handles(nodes) : Occurrences(nodes, h) <= 1

====
